---- MODULE Spec2Model ----
(***************************************************************************)
(* Model of ziptools' unzip.c: main() parses the options, opens the        *)
(* archive, builds the set of selected entries from the file arguments     *)
(* (exact lookup of literal names, then one fnmatch pass over all entries) *)
(* and dispatches on the run mode.                                         *)
(*                                                                         *)
(* Strings are sequences of one-character strings.  Entry indices are      *)
(* 0-based as in libzip; archive[i+1] is the name of entry i.              *)
(***************************************************************************)
EXTENDS Integers, Sequences, FiniteSets

----------------------------------------------------------------------------
(* Bounds of the model *)

MaxEntries == 2
MaxTokens == 2
MaxOpts == 2

(* Entry names an archive may hold and file arguments a user may give.     *)
(* The alphabet is a b * ? [ ] ! and backslash: no '-' or ':' occurs, so   *)
(* bracket ranges and character classes cannot arise.                      *)
NamePool ==
    { <<"a">>, <<"b">>, <<"a", "b">>, <<"\\", "a">> }

TokenPool ==
    { <<"a">>, <<"b">>, <<"\\", "a">>,
      <<"*">>, <<"?">>, <<"[", "a", "]">>, <<"[", "!", "a", "]">> }

OptChars == {"h", "l", "t", "V", "x"}

SeqsUpTo(S, n) == UNION { [1..k -> S] : k \in 0..n }

Archives == SeqsUpTo(NamePool, MaxEntries)
TokenLists == SeqsUpTo(TokenPool, MaxTokens)
OptLists == SeqsUpTo(OptChars, MaxOpts)

----------------------------------------------------------------------------
(* Pure helpers *)

GLOB_CHARS == {"*", "?", "["}

(* strcspn(s, GLOB_CHARS) == strlen(s) *)
IsLiteral(s) == \A k \in 1..Len(s) : s[k] \notin GLOB_CHARS

Drop(s, k) == SubSeq(s, k + 1, Len(s))

(* Position of the ']' closing the bracket expression that opens at p[1],  *)
(* or 0 when there is none.  A ']' right after '[' or '[!' is a member, a   *)
(* backslash quotes the next character.                                    *)
RECURSIVE ScanBracket(_, _)
ScanBracket(p, k) ==
    IF k > Len(p) THEN 0
    ELSE IF p[k] = "]" THEN k
    ELSE IF p[k] = "\\" THEN ScanBracket(p, k + 2)
    ELSE ScanBracket(p, k + 1)

BracketNegated(p) == Len(p) >= 2 /\ p[2] \in {"!", "^"}

BracketFirst(p) == IF BracketNegated(p) THEN 3 ELSE 2

BracketClose(p) ==
    LET f == BracketFirst(p)
    IN  IF f <= Len(p) /\ p[f] = "]" THEN ScanBracket(p, f + 1)
        ELSE ScanBracket(p, f)

(* The characters listed between '[' and the closing ']' at position c *)
RECURSIVE BracketMembers(_, _, _)
BracketMembers(p, k, c) ==
    IF k >= c THEN {}
    ELSE IF p[k] = "\\" /\ k + 1 < c
         THEN {p[k + 1]} \cup BracketMembers(p, k + 2, c)
    ELSE {p[k]} \cup BracketMembers(p, k + 1, c)

(* fnmatch(pattern, string, 0) == 0 *)
RECURSIVE fnmatch(_, _)
fnmatch(p, s) ==
    IF p = <<>> THEN s = <<>>
    ELSE IF p[1] = "*"
         THEN \E k \in 0..Len(s) : fnmatch(Tail(p), Drop(s, k))
    ELSE IF p[1] = "?"
         THEN s # <<>> /\ fnmatch(Tail(p), Tail(s))
    ELSE IF p[1] = "\\"
         THEN /\ Len(p) >= 2
              /\ s # <<>>
              /\ s[1] = p[2]
              /\ fnmatch(Drop(p, 2), Tail(s))
    ELSE IF p[1] = "[" /\ BracketClose(p) # 0
         THEN LET c == BracketClose(p)
                  in == s[1] \in BracketMembers(p, BracketFirst(p), c)
              IN  /\ s # <<>>
                  /\ in # BracketNegated(p)
                  /\ fnmatch(Drop(p, c), Tail(s))
    ELSE s # <<>> /\ s[1] = p[1] /\ fnmatch(Tail(p), Tail(s))

(* zip_get_num_entries(archive, 0) *)
zip_get_num_entries(za) == Len(za)

(* zip_get_name(archive, i, 0) *)
zip_get_name(za, i) == za[i + 1]

(* zip_name_locate(archive, name, 0): lowest index carrying the name, or -1 *)
zip_name_locate(za, name) ==
    LET hits == { i \in 0..(Len(za) - 1) : za[i + 1] = name }
    IN  IF hits = {} THEN -1
        ELSE CHOOSE i \in hits : \A h \in hits : i <= h

(* bitset.h *)
bitset_new(n) == [i \in 0..(n - 1) |-> FALSE]

bitset_set_all(bs) == [i \in DOMAIN bs |-> TRUE]

bitset_set(bs, i) == [bs EXCEPT ![i] = TRUE]

(* Lines 164-173: a file argument without glob characters is looked up by  *)
(* name and the entry found is selected at once.                           *)
LocateLiteral(bs, za, arg) ==
    IF IsLiteral(arg) /\ zip_name_locate(za, arg) >= 0
    THEN bitset_set(bs, zip_name_locate(za, arg))
    ELSE bs

(* RecordPattern with the stores of lines 174-176 moved into the branch for *)
(* arguments with glob characters                                          *)
RecordPattern_globonly(pats, arg) ==
    IF IsLiteral(arg) THEN pats
    ELSE Append(pats, [pattern |-> arg, matched |-> FALSE])

(* Lines 174-176: every file argument is entered in the pattern table *)
RecordPattern(pats, arg) ==
    Append(pats, [pattern |-> arg, matched |-> FALSE])

(* FirstMatch with the inner loop bounded by j < npatterns - 1 *)
FirstMatch_offbyone(pats, name) ==
    LET hits == { j \in 1..(Len(pats) - 1) : fnmatch(pats[j].pattern, name) }
    IN  IF hits = {} THEN 0
        ELSE CHOOSE j \in hits : \A h \in hits : j <= h

(* FirstMatch with the break outside the if: only patterns[0] is tested *)
FirstMatch_onlyfirst(pats, name) ==
    IF pats # <<>> /\ fnmatch(pats[1].pattern, name) THEN 1 ELSE 0

(* Lines 180-187 for one entry: the first pattern, in table order, that    *)
(* matches the entry's name; 0 when none does.                             *)
FirstMatch(pats, name) ==
    LET hits == { j \in 1..Len(pats) : fnmatch(pats[j].pattern, name) }
    IN  IF hits = {} THEN 0
        ELSE CHOOSE j \in hits : \A h \in hits : j <= h

(* Credited without the break of line 185 *)
Credited_nobreak(pats, name) ==
    { j \in 1..Len(pats) : fnmatch(pats[j].pattern, name) }

(* Lines 182-186: the patterns whose matched flag the entry sets; the      *)
(* break leaves the inner loop at the first match.                         *)
Credited(pats, name) ==
    IF FirstMatch(pats, name) = 0 THEN {} ELSE {FirstMatch(pats, name)}

(* Lines 163-188 as a function of the archive and the file arguments: the  *)
(* bitset after the loop over the arguments and the loop over the entries  *)
RECURSIVE LocateAll(_, _, _)
LocateAll(bs, za, args) ==
    IF args = <<>> THEN bs
    ELSE LocateAll(LocateLiteral(bs, za, Head(args)), za, Tail(args))

RECURSIVE RecordAll(_, _)
RecordAll(pats, args) ==
    IF args = <<>> THEN pats
    ELSE RecordAll(RecordPattern(pats, Head(args)), Tail(args))

RECURSIVE EntryPass(_, _, _, _)
EntryPass(bs, za, pats, k) ==
    IF k >= zip_get_num_entries(za) THEN bs
    ELSE EntryPass(IF Credited(pats, zip_get_name(za, k)) # {}
                   THEN bitset_set(bs, k) ELSE bs,
                   za, pats, k + 1)

SelectFiles(za, args) ==
    EntryPass(LocateAll(bitset_new(zip_get_num_entries(za)), za, args),
              za, RecordAll(<<>>, args), 0)

----------------------------------------------------------------------------
(* State *)

VARIABLES
    char_signed,     \* whether plain char is signed on the build (line 104)
    opts,            \* option characters of argv, in order
    has_path,        \* whether argv holds a zip-archive argument
    tokens,          \* argv after the zip-archive argument
    optpos,          \* number of options getopt_long has returned
    runmode,         \* MODE_EXTRACT, MODE_LIST or MODE_TEST
    ret,             \* main's ret
    archive,         \* the open archive's names in directory order
    selected_files,  \* the bitset, once bitset_new has returned it
    nnew,            \* bitsets bitset_new has returned
    nfree,           \* calls of bitset_free made
    patterns_ptr,    \* "unset", "heap", "NULL" or "freed"
    patterns,        \* the pattern_t records written so far
    i,               \* loop counter of the token loop and of the entry loop
    stderr,          \* lines written to stderr, see Line
    pc,              \* position in main
    exit_code,       \* process exit status once pc = "exited", else -1
    exit_at          \* which exit was taken

vars == <<char_signed, opts, has_path, tokens, optpos, runmode, ret, archive,
          selected_files, nnew, nfree, patterns_ptr, patterns, i, stderr, pc,
          exit_code, exit_at>>

argv_vars == <<char_signed, opts, has_path, tokens>>

npatterns == Len(patterns)

Init ==
    /\ char_signed \in BOOLEAN
    /\ opts \in OptLists
    /\ has_path \in BOOLEAN
    /\ tokens \in TokenLists
    /\ (~has_path => tokens = <<>>)
    /\ optpos = 0
    /\ runmode = "MODE_EXTRACT"
    /\ ret = 0
    /\ archive = <<>>
    /\ selected_files = <<>>
    /\ nnew = 0
    /\ nfree = 0
    /\ patterns_ptr = "unset"
    /\ patterns = <<>>
    /\ i = 0
    /\ stderr = <<>>
    /\ pc = "getopt"
    /\ exit_code = -1
    /\ exit_at = "none"

(* A line of output: its text and the argument it names, if any *)
Line(text, arg) == [text |-> text, arg |-> arg]

(* exit(status) and the return from main *)
Exit(status, at) ==
    /\ pc' = "exited"
    /\ exit_code' = status
    /\ exit_at' = at

Running == UNCHANGED <<exit_code, exit_at>>

----------------------------------------------------------------------------
(* Option parsing, lines 112-140 *)

NextOpt == opts[optpos + 1]

(* case 'h' *)
OptHelp ==
    /\ pc = "getopt" /\ optpos < Len(opts) /\ NextOpt = "h"
    /\ Exit(0, "help")
    /\ optpos' = optpos + 1
    /\ UNCHANGED <<argv_vars, runmode, ret, archive, selected_files, nnew,
                   nfree,
                   patterns_ptr, patterns, i, stderr>>

(* case 'l' *)
OptList ==
    /\ pc = "getopt" /\ optpos < Len(opts) /\ NextOpt = "l"
    /\ optpos' = optpos + 1
    /\ IF runmode # "MODE_EXTRACT"
       THEN /\ stderr' = Append(stderr, Line("only one mode selection allowed", <<>>))
            /\ Exit(1, "mode_conflict")
            /\ UNCHANGED runmode
       ELSE /\ runmode' = "MODE_LIST"
            /\ UNCHANGED <<stderr, pc>>
            /\ Running
    /\ UNCHANGED <<argv_vars, ret, archive, selected_files, nnew,
                   nfree,
                   patterns_ptr, patterns, i>>

(* case 't' *)
OptTest ==
    /\ pc = "getopt" /\ optpos < Len(opts) /\ NextOpt = "t"
    /\ optpos' = optpos + 1
    /\ IF runmode # "MODE_EXTRACT"
       THEN /\ stderr' = Append(stderr, Line("only one mode selection allowed", <<>>))
            /\ Exit(1, "mode_conflict")
            /\ UNCHANGED runmode
       ELSE /\ runmode' = "MODE_TEST"
            /\ UNCHANGED <<stderr, pc>>
            /\ Running
    /\ UNCHANGED <<argv_vars, ret, archive, selected_files, nnew,
                   nfree,
                   patterns_ptr, patterns, i>>

(* case 'V' *)
OptVersion ==
    /\ pc = "getopt" /\ optpos < Len(opts) /\ NextOpt = "V"
    /\ Exit(0, "version")
    /\ optpos' = optpos + 1
    /\ UNCHANGED <<argv_vars, runmode, ret, archive, selected_files, nnew,
                   nfree,
                   patterns_ptr, patterns, i, stderr>>

(* default: an option getopt_long does not know ('?'), and, where plain    *)
(* char is unsigned, the end of the options: c holds 255, which is not EOF *)
OptDefault ==
    /\ pc = "getopt"
    /\ \/ optpos < Len(opts) /\ NextOpt \notin {"h", "l", "t", "V"}
       \/ optpos = Len(opts) /\ ~char_signed
    /\ stderr' = Append(stderr, Line("usage", <<>>))
    /\ Exit(1, "bad_option")
    /\ optpos' = optpos
    /\ UNCHANGED <<argv_vars, runmode, ret, archive, selected_files, nnew,
                   nfree,
                   patterns_ptr, patterns, i>>

(* getopt_long returns EOF; lines 141-144 *)
OptEnd ==
    /\ pc = "getopt" /\ optpos = Len(opts) /\ char_signed
    /\ IF ~has_path
       THEN Exit(1, "no_archive")
       ELSE pc' = "open" /\ Running
    /\ UNCHANGED <<argv_vars, optpos, runmode, ret, archive, selected_files,
                   nnew, nfree, patterns_ptr, patterns, i, stderr>>

----------------------------------------------------------------------------
(* Opening the archive and creating the bitset, lines 145-151 *)

(* zip_open fails *)
ZipOpenFail ==
    /\ pc = "open"
    /\ Exit(1, "open_fail")
    /\ UNCHANGED <<argv_vars, optpos, runmode, ret, archive, selected_files,
                   nnew, nfree, patterns_ptr, patterns, i, stderr>>

(* zip_open returns the archive; optind++ *)
ZipOpen ==
    /\ pc = "open"
    /\ \E za \in Archives : archive' = za
    /\ pc' = "bitset_new"
    /\ Running
    /\ UNCHANGED <<argv_vars, optpos, runmode, ret, selected_files, nnew,
                   nfree, patterns_ptr, patterns, i, stderr>>

(* bitset_new(zip_get_num_entries(archive, 0)) *)
BitsetNew ==
    /\ pc = "bitset_new"
    /\ selected_files' = bitset_new(zip_get_num_entries(archive))
    /\ nnew' = nnew + 1
    /\ pc' = "select"
    /\ Running
    /\ UNCHANGED <<argv_vars, optpos, runmode, ret, archive, nfree,
                   patterns_ptr, patterns, i, stderr>>

(* bitset_new cannot allocate the set *)
BitsetNewFail ==
    /\ pc = "bitset_new"
    /\ Exit(1, "alloc_fail")
    /\ UNCHANGED <<argv_vars, optpos, runmode, ret, archive, selected_files,
                   nnew, nfree, patterns_ptr, patterns, i, stderr>>

----------------------------------------------------------------------------
(* Selection, lines 153-197 *)

(* SelectAll without the call of bitset_set_all *)
SelectAll_skip ==
    /\ pc = "select" /\ Len(tokens) = 0
    /\ pc' = "dispatch"
    /\ Running
    /\ UNCHANGED <<argv_vars, optpos, runmode, ret, archive, selected_files,
                   nnew, nfree, patterns_ptr, patterns, i, stderr>>

(* argc == optind: no file arguments, select everything *)
SelectAll ==
    /\ pc = "select" /\ Len(tokens) = 0
    /\ selected_files' = bitset_set_all(selected_files)
    /\ pc' = "dispatch"
    /\ Running
    /\ UNCHANGED <<argv_vars, optpos, runmode, ret, archive, nnew, nfree,
                   patterns_ptr, patterns, i, stderr>>

(* malloc of the pattern table; a NULL result is not acted upon (line 161) *)
MallocPatterns ==
    /\ pc = "select" /\ Len(tokens) > 0
    /\ patterns_ptr' \in {"heap", "NULL"}
    /\ i' = 0
    /\ pc' = "tokens"
    /\ Running
    /\ UNCHANGED <<argv_vars, optpos, runmode, ret, archive, selected_files,
                   nnew, nfree, patterns, stderr>>

(* One iteration of the loop over the file arguments, lines 163-177.  With *)
(* patterns == NULL the stores of lines 174-175 are undefined behaviour;   *)
(* this action is the outcome where they land in writable memory.  A name  *)
(* that is not found writes nothing (line 168).                            *)
TokenStep ==
    /\ pc = "tokens" /\ i < Len(tokens)
    /\ selected_files' = LocateLiteral(selected_files, archive, tokens[i + 1])
    /\ patterns' = RecordPattern(patterns, tokens[i + 1])
    /\ IF i + 1 < Len(tokens)
       THEN i' = i + 1 /\ UNCHANGED pc
       ELSE i' = 0 /\ pc' = "entries"
    /\ Running
    /\ UNCHANGED <<argv_vars, optpos, runmode, ret, archive, nnew, nfree,
                   patterns_ptr, stderr>>

(* The other outcome of the store through patterns == NULL: the process is *)
(* killed by SIGSEGV at line 174, after the lookup of lines 164-173.       *)
TokenSegv ==
    /\ pc = "tokens" /\ i < Len(tokens) /\ patterns_ptr = "NULL"
    /\ selected_files' = LocateLiteral(selected_files, archive, tokens[i + 1])
    /\ Exit(139, "segv")
    /\ UNCHANGED <<argv_vars, optpos, runmode, ret, archive, nnew, nfree,
                   patterns_ptr, patterns, i, stderr>>

(* One iteration of the loop over the entries, lines 179-188 *)
EntryStep ==
    /\ pc = "entries" /\ i < zip_get_num_entries(archive)
    /\ LET hit == Credited(patterns, zip_get_name(archive, i))
       IN  /\ patterns' = [j \in 1..Len(patterns) |->
                              IF j \in hit
                              THEN [patterns[j] EXCEPT !.matched = TRUE]
                              ELSE patterns[j]]
           /\ selected_files' = IF hit # {}
                                 THEN bitset_set(selected_files, i)
                                 ELSE selected_files
    /\ i' = i + 1
    /\ Running
    /\ UNCHANGED <<argv_vars, optpos, runmode, ret, archive, nnew, nfree,
                   patterns_ptr, stderr, pc>>

(* The loop over the patterns, lines 190-194, whose body writes nothing    *)
(* (line 192), and free(patterns)                                          *)
ReportUnmatched ==
    /\ pc = "entries" /\ i >= zip_get_num_entries(archive)
    /\ patterns_ptr' = IF patterns_ptr = "heap" THEN "freed" ELSE patterns_ptr
    /\ pc' = "dispatch"
    /\ Running
    /\ UNCHANGED <<argv_vars, optpos, runmode, ret, archive, selected_files,
                   nnew, nfree, patterns, i, stderr>>

----------------------------------------------------------------------------
(* Dispatch on the run mode and shutdown, lines 199-219 *)

(* case MODE_EXTRACT: exit(1) *)
ModeExtract ==
    /\ pc = "dispatch" /\ runmode = "MODE_EXTRACT"
    /\ Exit(1, "extract")
    /\ UNCHANGED <<argv_vars, optpos, runmode, ret, archive, selected_files,
                   nnew, nfree, patterns_ptr, patterns, i, stderr>>

(* case MODE_LIST: ret = list_archive(archive, selected_files) *)
ModeList ==
    /\ pc = "dispatch" /\ runmode = "MODE_LIST"
    /\ ret' \in {0, 1}
    /\ pc' = "close"
    /\ Running
    /\ UNCHANGED <<argv_vars, optpos, runmode, archive, selected_files,
                   nnew, nfree, patterns_ptr, patterns, i, stderr>>

(* case MODE_TEST: ret = test_archive(archive, selected_files); exit(1) *)
ModeTest ==
    /\ pc = "dispatch" /\ runmode = "MODE_TEST"
    /\ ret' \in {0, 1}
    /\ Exit(1, "test")
    /\ UNCHANGED <<argv_vars, optpos, runmode, archive, selected_files,
                   nnew, nfree, patterns_ptr, patterns, i, stderr>>

(* zip_close fails: exit(1) *)
ZipCloseFail ==
    /\ pc = "close"
    /\ Exit(1, "close_fail")
    /\ UNCHANGED <<argv_vars, optpos, runmode, ret, archive, selected_files,
                   nnew, nfree, patterns_ptr, patterns, i, stderr>>

(* zip_close succeeds; bitset_free(selected_files); return ret *)
Return ==
    /\ pc = "close"
    /\ nfree' = nfree + 1
    /\ Exit(ret, "return")
    /\ UNCHANGED <<argv_vars, optpos, runmode, ret, archive, selected_files,
                   nnew, patterns_ptr, patterns, i, stderr>>

----------------------------------------------------------------------------

Next ==
    \/ OptHelp
    \/ OptList
    \/ OptTest
    \/ OptVersion
    \/ OptDefault
    \/ OptEnd
    \/ ZipOpenFail
    \/ ZipOpen
    \/ BitsetNew
    \/ BitsetNewFail
    \/ SelectAll
    \/ MallocPatterns
    \/ TokenStep
    \/ TokenSegv
    \/ EntryStep
    \/ ReportUnmatched
    \/ ModeExtract
    \/ ModeList
    \/ ModeTest
    \/ ZipCloseFail
    \/ Return

Spec == Init /\ [][Next]_vars

----------------------------------------------------------------------------
(* Properties *)

Entries == 0..(zip_get_num_entries(archive) - 1)

Marked == { k \in DOMAIN selected_files : selected_files[k] }

(* The selection of lines 153-197 is complete and main is about to switch  *)
(* on the run mode                                                         *)
Selected == pc = "dispatch"

(* The entries whose name a file argument matches *)
Matching(arg) == { k \in Entries : fnmatch(arg, zip_get_name(archive, k)) }

Permutations(n) ==
    { f \in [1..n -> 1..n] : \A x, y \in 1..n : f[x] = f[y] => x = y }

(* C1: without file arguments every entry 0..N-1 of the archive is marked  *)
(* when the selection is complete, and no pattern record has been created: *)
(* the pattern table was neither allocated nor written.                    *)
C1_NoTokensSelectsAll ==
    (Selected /\ tokens = <<>>) =>
        /\ DOMAIN selected_files = Entries
        /\ Marked = Entries
        /\ patterns = <<>>
        /\ patterns_ptr = "unset"

C1_Witness ==
    /\ Selected /\ tokens = <<>>
    /\ zip_get_num_entries(archive) >= 2
    /\ Marked = Entries

(* C2: when the selection is complete, every entry whose name a glob       *)
(* argument matches is marked, wherever the argument stands in the list    *)
(* and whatever the other arguments are; and when that glob argument is    *)
(* the only one, no entry whose name it does not match is marked.          *)
C2_GlobMarksMatches ==
    Selected =>
        /\ \A j \in 1..Len(tokens) :
              ~IsLiteral(tokens[j]) => Matching(tokens[j]) \subseteq Marked
        /\ (Len(tokens) = 1 /\ ~IsLiteral(tokens[1]))
              => Marked \subseteq Matching(tokens[1])

C2_Witness ==
    /\ Selected /\ Len(tokens) = 2
    /\ IsLiteral(tokens[1]) /\ ~IsLiteral(tokens[2])
    /\ \E k \in Matching(tokens[2]) : k \notin Matching(tokens[1])
    /\ Marked # Entries

(* C3 as stated: with two entries of the same name and that name as the    *)
(* only, literal, file argument, the higher of the two indices is left     *)
(* unmarked.                                                               *)
C3_OnlyLowerMarked ==
    (Selected /\ Len(tokens) = 1 /\ IsLiteral(tokens[1])) =>
        \A k1, k2 \in Entries :
            (/\ k1 < k2
             /\ zip_get_name(archive, k1) = tokens[1]
             /\ zip_get_name(archive, k2) = tokens[1]) => k2 \notin Marked

HasBackslash(s) == \E k \in 1..Len(s) : s[k] = "\\"

(* C3 amended: with two entries of the same name and that name, free of    *)
(* backslashes, as the only, literal, file argument, both indices are      *)
(* marked (the lower by the lookup, both by the pass over the entries),    *)
(* and no entry of another name is.                                        *)
C3_BothMarked ==
    (Selected /\ Len(tokens) = 1 /\ IsLiteral(tokens[1])
       /\ ~HasBackslash(tokens[1])) =>
        Marked = { k \in Entries : zip_get_name(archive, k) = tokens[1] }

C3_Witness ==
    /\ Selected /\ Len(tokens) = 1 /\ IsLiteral(tokens[1])
    /\ ~HasBackslash(tokens[1])
    /\ \E k1, k2 \in Entries :
          /\ k1 < k2
          /\ zip_get_name(archive, k1) = tokens[1]
          /\ zip_get_name(archive, k2) = tokens[1]
          /\ {k1, k2} \subseteq Marked

(* C4: when the selection is complete, every literal file argument that    *)
(* is the name of an entry of the archive has its matched flag set.  The   *)
(* arguments considered are those without a backslash, which fnmatch       *)
(* compares character by character.                                        *)
C4_LiteralFoundIsMatched ==
    (Selected /\ Len(patterns) = Len(tokens)) =>
        \A j \in 1..Len(tokens) :
            (/\ IsLiteral(tokens[j])
             /\ ~HasBackslash(tokens[j])
             /\ zip_name_locate(archive, tokens[j]) >= 0)
                => patterns[j].matched

(* C5: when the selection is complete, the bitset is the one the selection *)
(* yields for every permutation of the file arguments.                     *)
C5_OrderIndependent ==
    (Selected /\ tokens # <<>>) =>
        \A f \in Permutations(Len(tokens)) :
            SelectFiles(archive, [j \in 1..Len(tokens) |-> tokens[f[j]]])
                = selected_files

C5_Witness ==
    /\ Selected /\ Len(tokens) >= 2
    /\ tokens[1] # tokens[2]
    /\ Matching(tokens[1]) # Matching(tokens[2])
    /\ Marked # {} /\ Marked # Entries

(* The file arguments, by position, that no lookup finds and that match no *)
(* entry name                                                              *)
Unmatched ==
    { j \in 1..Len(tokens) :
        /\ ~(IsLiteral(tokens[j]) /\ zip_name_locate(archive, tokens[j]) >= 0)
        /\ Matching(tokens[j]) = {} }

(* The lines of stderr that name the argument *)
Reports(arg) == { m \in 1..Len(stderr) : stderr[m].arg = arg }

(* C6: when the selection is complete, stderr names each file argument     *)
(* that no lookup finds and that matches no entry name once for each of    *)
(* its occurrences in the argument list.                                   *)
C6_UnmatchedReportedOnce ==
    (Selected /\ tokens # <<>>) =>
        \A j \in Unmatched :
            Cardinality(Reports(tokens[j]))
                = Cardinality({ h \in Unmatched : tokens[h] = tokens[j] })

ModeFlags == { k \in 1..Len(opts) : opts[k] \in {"l", "t"} }

(* C7: a run that reaches the switch on the run mode (the archive path was *)
(* given, the archive opened, the options were recognised, with at most    *)
(* one mode flag), without an allocation failure, whose list_archive or    *)
(* test_archive returns 0 and whose zip_close does not fail, exits with    *)
(* status 0.                                                               *)
C7_SuccessExitsZero ==
    (/\ pc = "exited"
     /\ exit_at \in {"extract", "test", "return"}
     /\ Cardinality(ModeFlags) <= 1
     /\ patterns_ptr # "NULL"
     /\ ret = 0) => exit_code = 0

(* C8: when the process has terminated by the return from main, by the     *)
(* exit of extract mode or of test mode, or by the exit on a failed        *)
(* zip_close, the bitset bitset_new returned has been passed to            *)
(* bitset_free exactly once.                                               *)
C8_BitsetFreedOnce ==
    (pc = "exited" /\ exit_at \in {"return", "extract", "test", "close_fail"})
        => (nnew = 1 /\ nfree = 1)

(* C9: once malloc has returned NULL for the pattern table, the process    *)
(* has exited with a non-zero status, and no pattern record was written.   *)
C9_AllocFailureIsFatal ==
    patterns_ptr = "NULL" =>
        (pc = "exited" /\ exit_code # 0 /\ patterns = <<>>)

(* C10: when the pass over the entries is complete, a pattern's matched    *)
(* flag is set exactly if some entry's name is matched by that pattern and *)
(* by no pattern before it in the table.                                   *)
C10_FirstMatchCredited ==
    (Selected /\ tokens # <<>>) =>
        /\ Len(patterns) = Len(tokens)
        /\ \A j \in 1..Len(patterns) :
              /\ patterns[j].pattern = tokens[j]
              /\ patterns[j].matched <=>
                    \E k \in Matching(tokens[j]) :
                        \A h \in 1..(j - 1) : k \notin Matching(tokens[h])

C10_Witness ==
    /\ Selected /\ Len(patterns) >= 2
    /\ \E j \in 2..Len(patterns) :
          Matching(tokens[j]) # {} /\ ~patterns[j].matched
    /\ patterns[1].matched

====
